---- MODULE Spec2Model ----
(***************************************************************************)
(* Model of bot-get-tickets-qa-v2.py: a single-threaded script that        *)
(* resolves a board, a column and an area predicate once at startup and    *)
(* then polls a work-item query forever, posting one Slack message per     *)
(* work item id it has not seen before.                                    *)
(***************************************************************************)
EXTENDS Integers, Sequences, FiniteSets, TLC

\* ---------------------------------------------------------------- bounds
\* Work item ids the query may return are 1..NumIds.
NumIds == 2
\* Longest query result (ids may repeat inside one result).
MaxItems == 2
\* Longest board / column list the tracking service returns.
MaxEntries == 2
\* Longest team-field-values list the tracking service returns.
MaxValues == 3
\* The observation counters saturate here (one above the claimed maximum).
MaxCount == 2

\* ------------------------------------------------------------- constants
AZURE_PROJ  == "OmniStack"
BOARD_NAME  == "Stories"
COLUMN_NAME == "Ready for QA"

Ids == 1..NumIds

RECURSIVE SeqsUpTo(_, _)
\* All sequences over S of length at most n.
SeqsUpTo(S, n) ==
    IF n = 0 THEN {<<>>}
    ELSE LET shorter == SeqsUpTo(S, n - 1)
         IN  shorter \cup {Append(s, x) : s \in shorter, x \in S}

\* ------------------------------------------------------------- variables
VARIABLES
    pc,              \* position of the single control thread
    environ,         \* names set in the process environment
    crash,           \* the uncaught exception that ended the process, if any
    boards,          \* get_board_id_by_name: the fetched board list
    board_id,        \* __main__: board_id (0 before resolution)
    cols,            \* get_column_id_by_name: the fetched column list
    column_id,       \* __main__: column_id (0 before resolution)
    values,          \* get_team_area_predicate: data.get("values", [])
    area_predicate,  \* __main__: area_predicate ("" before it is built)
    seen_ids,        \* the module-level set seen_ids
    items,           \* __main__: items, the last successful query result
    idx,             \* how many elements of items the for loop has taken
    wid,             \* __main__: wid (0 before the first iteration)
    err,             \* what raised in the current cycle: none, query or fetch
    requests,        \* observation: kinds of outbound requests issued so far
    fetchCount,      \* observation: detail fetches issued per id
    notifyCount,     \* observation: post_to_slack calls per id
    fetchFailed,     \* observation: ids whose detail fetch raised
    deliveryFailed,  \* observation: ids whose webhook post raised
    seenAtStart,     \* observation: seen_ids when the cycle's query was issued
    pending,         \* observation: queries issued minus sleeps completed
    skipped,         \* observation: unseen ids an aborted cycle left behind
    owed             \* observation: skipped ids a later cycle has reached

vars == <<pc, environ, crash, boards, board_id, cols, column_id, values,
          area_predicate, seen_ids, items, idx, wid, err, requests,
          fetchCount, notifyCount, fetchFailed, deliveryFailed, seenAtStart,
          pending, skipped, owed>>

startupVars == <<boards, board_id, cols, column_id, values, area_predicate>>
loopVars    == <<seen_ids, items, idx, wid, err>>
obsVars     == <<fetchCount, notifyCount, fetchFailed, deliveryFailed,
                 seenAtStart, pending, skipped, owed>>

NoCrash == [type |-> "none", stage |-> "none", available |-> <<>>]

LoopPcs == {"query", "for", "fetch", "notify", "sleep"}

Bump(n) == IF n < MaxCount THEN n + 1 ELSE MaxCount

Init ==
    /\ pc = "config"
    /\ environ \in SUBSET {"AZURE_PAT", "SLACK_WEBHOOK"}
    /\ crash = NoCrash
    /\ boards = <<>>
    /\ board_id = 0
    /\ cols = <<>>
    /\ column_id = 0
    /\ values = <<>>
    /\ area_predicate = ""
    /\ seen_ids = {}
    /\ items = <<>>
    /\ idx = 0
    /\ wid = 0
    /\ err = "none"
    /\ requests = {}
    /\ fetchCount = [i \in Ids |-> 0]
    /\ notifyCount = [i \in Ids |-> 0]
    /\ fetchFailed = {}
    /\ deliveryFailed = {}
    /\ seenAtStart = {}
    /\ pending = 0
    /\ skipped = {}
    /\ owed = {}

\* ------------------------------------------------- board / column lookup
\* What the tracking service may answer to a board or column listing.
BoardNames  == {"Stories", "stories"}
ColumnNames == {"Ready for QA", "Ready for QA "}
BoardIds    == {3, 4}
ColumnIds   == {7, 8}
BoardEntries  == [name : BoardNames, id : BoardIds]
ColumnEntries == [name : ColumnNames, id : ColumnIds]

\* [b.get('name') for b in entries]
RECURSIVE Names(_)
Names(entries) ==
    IF entries = <<>> THEN <<>>
    ELSE <<Head(entries).name>> \o Names(Tail(entries))

\* Variant: names compared with letter case and trailing blanks folded.
Fold(s) ==
    CASE s = "Stories"       -> "stories"
      [] s = "Ready for QA " -> "Ready for QA"
      [] OTHER               -> s

NameMatchesFolded(entryName, wanted) == Fold(entryName) = Fold(wanted)

\* b.get("name") == board_name
NameMatches(entryName, wanted) == entryName = wanted

\* next((b for b in entries if b.get("name") == wanted), None), the result
\* held as a sequence of zero or one entries.
RECURSIVE FirstNamed(_, _)
FirstNamed(entries, wanted) ==
    IF entries = <<>> THEN <<>>
    ELSE IF NameMatches(Head(entries).name, wanted) THEN <<Head(entries)>>
    ELSE FirstNamed(Tail(entries), wanted)

\* The body shared by get_board_id_by_name and get_column_id_by_name after
\* the list is fetched: the (id, name) returned, or the RuntimeError raised
\* with the names of all fetched entries.
LookupByName(entries, wanted) ==
    LET found == FirstNamed(entries, wanted)
    IN  IF found = <<>>
        THEN [ok |-> FALSE, id |-> 0, name |-> "", available |-> Names(entries)]
        ELSE [ok |-> TRUE, id |-> found[1].id, name |-> found[1].name,
              available |-> <<>>]

get_board_id_by_name(fetched, board_name) == LookupByName(fetched, board_name)

get_column_id_by_name(fetched, column_name) == LookupByName(fetched, column_name)

\* The board id __main__ passes to get_column_id_by_name.
ColumnLookupBoard == board_id

\* ------------------------------------------------------- area predicate
\* A team field value entry: "value" and "includeChildren" may each be
\* absent, and "value" may be the empty string.
AreaPaths == {"", "OmniStack\\WASP", "OmniStack\\QA"}
AreaEntries ==
    [value : AreaPaths, includeChildren : BOOLEAN]
      \cup [value : AreaPaths] \cup [includeChildren : BOOLEAN] \cup {<<>>}

ProjectClause == "[System.TeamProject] = '" \o AZURE_PROJ \o "'"

\* path = v.get("value"); "if not path" is taken when it is None or "".
HasPath(v) == "value" \in DOMAIN v /\ v.value # ""

\* include_children = v.get("includeChildren", False)
IncludeChildren(v) ==
    IF "includeChildren" \in DOMAIN v THEN v.includeChildren ELSE FALSE

\* One iteration's append.
AreaClause(v) ==
    IF IncludeChildren(v)
    THEN "[System.AreaPath] UNDER '" \o v.value \o "'"
    ELSE "[System.AreaPath] = '" \o v.value \o "'"

\* The for loop over values: parts after the loop.
RECURSIVE AreaParts(_)
AreaParts(vals) ==
    IF vals = <<>> THEN <<>>
    ELSE IF ~HasPath(Head(vals)) THEN AreaParts(Tail(vals))
    ELSE <<AreaClause(Head(vals))>> \o AreaParts(Tail(vals))

\* " OR ".join(parts)
RECURSIVE JoinOr(_)
JoinOr(parts) ==
    IF parts = <<>> THEN ""
    ELSE IF Len(parts) = 1 THEN parts[1]
    ELSE parts[1] \o " OR " \o JoinOr(Tail(parts))

\* Variant: the "if not parts" return is missing.
NoPartsFallsThrough(parts) == FALSE

\* "if not parts": nothing usable.
NoParts(parts) == parts = <<>>

\* get_team_area_predicate after the settings are fetched.
get_team_area_predicate(vals) ==
    IF vals = <<>> THEN ProjectClause
    ELSE LET parts == AreaParts(vals)
         IN  IF NoParts(parts) THEN ProjectClause
             ELSE "(" \o JoinOr(parts) \o ")"

\* ---------------------------------------------------------------- startup
\* Variant: the secrets are read with a default instead of a subscript.
ConfigAlwaysLoads(env) == TRUE

\* os.environ["AZURE_PAT"] and os.environ["SLACK_WEBHOOK"] both succeed.
ConfigLoads(env) == "AZURE_PAT" \in env /\ "SLACK_WEBHOOK" \in env

Crash(type, stage, available) ==
    /\ pc' = "crashed"
    /\ crash' = [type |-> type, stage |-> stage, available |-> available]

\* Lines 12-13: the two environment lookups at import time.
LoadConfig ==
    /\ pc = "config"
    /\ IF ConfigLoads(environ)
       THEN pc' = "boards" /\ UNCHANGED crash
       ELSE Crash("KeyError", "config", <<>>)
    /\ UNCHANGED <<environ, startupVars, loopVars, requests, obsVars>>

\* Line 127: get_board_id_by_name; the listing may fail (raise_for_status)
\* or return one of the given lists.
ResolveBoard(lists) ==
    /\ pc = "boards"
    /\ requests' = requests \cup {<<"boards", 0>>}
    /\ \/ /\ Crash("HTTPError", "boards", <<>>)
          /\ UNCHANGED <<boards, board_id>>
       \/ \E fetched \in lists :
            LET r == get_board_id_by_name(fetched, BOARD_NAME)
            IN  /\ boards' = fetched
                /\ IF r.ok
                   THEN pc' = "columns" /\ board_id' = r.id /\ UNCHANGED crash
                   ELSE Crash("RuntimeError", "boards", r.available)
                        /\ UNCHANGED board_id
    /\ UNCHANGED <<environ, cols, column_id, values, area_predicate,
                   loopVars, obsVars>>

\* Line 128: get_column_id_by_name on the resolved board.
ResolveColumn(lists) ==
    /\ pc = "columns"
    /\ requests' = requests \cup {<<"columns", ColumnLookupBoard>>}
    /\ \/ /\ Crash("HTTPError", "columns", <<>>)
          /\ UNCHANGED <<cols, column_id>>
       \/ \E fetched \in lists :
            LET r == get_column_id_by_name(fetched, COLUMN_NAME)
            IN  /\ cols' = fetched
                /\ IF r.ok
                   THEN pc' = "area" /\ column_id' = r.id /\ UNCHANGED crash
                   ELSE Crash("RuntimeError", "columns", r.available)
                        /\ UNCHANGED column_id
    /\ UNCHANGED <<environ, boards, board_id, values, area_predicate,
                   loopVars, obsVars>>

\* Line 134: get_team_area_predicate; afterwards the loop is entered.
BuildAreaPredicate(lists) ==
    /\ pc = "area"
    /\ requests' = requests \cup {<<"teamfieldvalues", 0>>}
    /\ \/ /\ Crash("HTTPError", "area", <<>>)
          /\ UNCHANGED <<values, area_predicate>>
       \/ \E fetched \in lists :
            /\ values' = fetched
            /\ area_predicate' = get_team_area_predicate(fetched)
            /\ pc' = "query"
            /\ UNCHANGED crash
    /\ UNCHANGED <<environ, boards, board_id, cols, column_id,
                   loopVars, obsVars>>

\* -------------------------------------------------------------- poll loop
QueryResults == SeqsUpTo(Ids, MaxItems)

\* Variant: the membership test is missing.
CheckIgnoresSeen(w) == FALSE

\* Line 142, negated: wid is already in seen_ids.
AlreadySeen(w) == w \in seen_ids

\* Variant: the id is not recorded before the fetch.
MarkSeenLater(w) == seen_ids

\* Variant: seen_ids is reassigned instead of added to.
MarkSeenOnly(w) == {w}

\* Line 143: seen_ids.add(wid).
MarkSeen(w) == seen_ids \cup {w}

\* Variant: the exception is not caught.
ErrorEndsProcess == "crashed"

\* Variant: the try block is inside the for loop.
ErrorContinuesLoop == "for"

\* Lines 151-154: the except clause prints and falls through to the sleep.
AfterError == "sleep"

\* Variant: post_to_slack has no try block of its own.
DeliveryErrorPropagates == AfterError

\* Lines 40-41: post_to_slack swallows the exception, so the for loop goes on.
AfterDeliveryError == "for"

\* The ids a raise at position k of result leaves unprocessed: those that
\* occur after k and are not in seen_ids when the exception is raised.
LeftBehind(result, k) ==
    {result[j] : j \in (k + 1)..Len(result)} \ seen_ids

\* Line 139: the query. It raises (non-2xx answer), or assigns items.
Query ==
    /\ pc = "query"
    /\ requests' = requests \cup {<<"wiql", 0>>}
    /\ seenAtStart' = seen_ids
    /\ pending' = Bump(pending)
    /\ \/ /\ pc' = AfterError
          /\ err' = "query"
          /\ UNCHANGED <<items, idx>>
       \/ \E result \in QueryResults :
            /\ items' = result
            /\ idx' = 0
            /\ err' = "none"
            /\ pc' = "for"
    /\ UNCHANGED <<environ, crash, startupVars, seen_ids, wid, fetchCount,
                   notifyCount, fetchFailed, deliveryFailed, skipped, owed>>

\* Lines 140-143: the for statement takes the next item, or ends the try
\* block when none is left; an unseen id is recorded before anything else.
ForNext ==
    /\ pc = "for"
    /\ IF idx < Len(items)
       THEN LET w == items[idx + 1]
            IN  /\ idx' = idx + 1
                /\ wid' = w
                /\ owed' = owed \cup ({w} \cap skipped)
                /\ skipped' = skipped \ {w}
                /\ IF AlreadySeen(w)
                   THEN pc' = "for" /\ UNCHANGED seen_ids
                   ELSE pc' = "fetch" /\ seen_ids' = MarkSeen(w)
       ELSE /\ pc' = "sleep"
            /\ UNCHANGED <<idx, wid, seen_ids, owed, skipped>>
    /\ UNCHANGED <<environ, crash, startupVars, items, err, requests,
                   fetchCount, notifyCount, fetchFailed, deliveryFailed,
                   seenAtStart, pending>>

\* Lines 144-146: get_work_item and the two subscript chains. A non-2xx
\* answer or a body without "fields" / "_links" raises into the except clause.
Fetch ==
    /\ pc = "fetch"
    /\ requests' = requests \cup {<<"workitem", 0>>}
    /\ fetchCount' = [fetchCount EXCEPT ![wid] = Bump(@)]
    /\ \E outcome \in {"ok", "http_error", "malformed"} :
         IF outcome = "ok"
         THEN pc' = "notify" /\ UNCHANGED <<err, skipped, fetchFailed>>
         ELSE /\ pc' = AfterError
              /\ err' = "fetch"
              /\ fetchFailed' = fetchFailed \cup {wid}
              /\ skipped' = skipped \cup LeftBehind(items, idx)
    /\ UNCHANGED <<environ, crash, startupVars, seen_ids, items, idx, wid,
                   notifyCount, deliveryFailed, seenAtStart, pending, owed>>

\* Lines 147-150 with 37-41: post_to_slack; the post succeeds or raises, and
\* a raise is caught inside post_to_slack.
Notify ==
    /\ pc = "notify"
    /\ requests' = requests \cup {<<"slack", 0>>}
    /\ notifyCount' = [notifyCount EXCEPT ![wid] = Bump(@)]
    /\ \/ pc' = "for" /\ UNCHANGED deliveryFailed
       \/ pc' = AfterDeliveryError /\ deliveryFailed' = deliveryFailed \cup {wid}
    /\ UNCHANGED <<environ, crash, startupVars, loopVars, fetchCount,
                   fetchFailed, seenAtStart, pending, skipped, owed>>

\* Line 154: time.sleep(POLL_INTERVAL), then back to the top of while True.
Sleep ==
    /\ pc = "sleep"
    /\ pc' = "query"
    /\ pending' = pending - 1
    /\ UNCHANGED <<environ, crash, startupVars, loopVars, requests, fetchCount,
                   notifyCount, fetchFailed, deliveryFailed, seenAtStart,
                   skipped, owed>>

\* ---------------------------------------------------------- specifications
\* The answers the service gives at startup in the whole-program runs.
FewBoardLists  == {<<>>, <<[name |-> "stories", id |-> 4],
                           [name |-> "Stories", id |-> 3]>>}
FewColumnLists == {<<>>, <<[name |-> "Ready for QA", id |-> 7]>>}
FewValueLists  == {<<>>, <<[value |-> "OmniStack\\WASP",
                            includeChildren |-> TRUE]>>}

Poll == Query \/ ForNext \/ Fetch \/ Notify \/ Sleep

Next ==
    \/ LoadConfig
    \/ ResolveBoard(FewBoardLists)
    \/ ResolveColumn(FewColumnLists)
    \/ BuildAreaPredicate(FewValueLists)
    \/ Poll

\* The whole program.
Spec == Init /\ [][Next]_vars

\* The whole program; the single control thread keeps taking steps (every
\* blocking call returns or raises).
FairSpec == Init /\ [][Next]_vars /\ WF_vars(Next)

NextResolver ==
    \/ LoadConfig
    \/ ResolveBoard(SeqsUpTo(BoardEntries, MaxEntries))
    \/ ResolveColumn(SeqsUpTo(ColumnEntries, MaxEntries))
    \/ BuildAreaPredicate(FewValueLists)

\* The startup phase alone, over every board and column list the service
\* may return.
SpecResolver == Init /\ [][NextResolver]_vars

NextScope ==
    \/ LoadConfig
    \/ ResolveBoard(FewBoardLists)
    \/ ResolveColumn(FewColumnLists)
    \/ BuildAreaPredicate(SeqsUpTo(AreaEntries, MaxValues))

\* The startup phase alone, over every team-field-values list the service
\* may return.
SpecScope == Init /\ [][NextScope]_vars

\* ------------------------------------------------------------------ claims
InCycle == {"for", "fetch", "notify", "sleep"}

\* The part of the current cycle's result the for loop has taken so far.
Reached == {items[k] : k \in 1..idx}

\* C1: over the whole run, whatever the queries return and whatever fails,
\* post_to_slack is called at most once for each work item id.
C1_NotifiedAtMostOnce == \A i \in Ids : notifyCount[i] <= 1

\* C1 witness: a cycle ends whose result repeats an id that an earlier cycle
\* already notified, and that id has still been notified exactly once.
C1_Witness ==
    /\ pc = "sleep"
    /\ err = "none"
    /\ \E k \in 1..Len(items) :
         items[k] \in seenAtStart /\ notifyCount[items[k]] = 1

\* C2: an id already in seen_ids when the loop reaches it gets no fetch and
\* no notification; an id not in seen_ids is added before its fetch and
\* before its notification, so whenever a fetch or a notification is about to
\* be made the id is already in seen_ids.
C2_SeenBeforeFetchAndNotify ==
    /\ [](pc \in {"fetch", "notify"} =>
            /\ idx \in 1..Len(items)
            /\ wid = items[idx]
            /\ wid \in seen_ids
            /\ wid \notin seenAtStart)
    /\ [][(pc = "for" /\ idx < Len(items)) =>
            /\ fetchCount' = fetchCount
            /\ notifyCount' = notifyCount
            /\ IF items[idx + 1] \in seen_ids
               THEN pc' = "for" /\ seen_ids' = seen_ids
               ELSE pc' = "fetch" /\ items[idx + 1] \in seen_ids']_vars
    /\ [][fetchCount' # fetchCount => pc = "fetch"]_vars
    /\ [][notifyCount' # notifyCount => pc = "notify"]_vars

\* C2 witness: the result holds an id seen before the cycle followed by a new
\* one, and the new one is about to be notified, already recorded.
C2_Witness ==
    /\ pc = "notify"
    /\ idx = 2
    /\ items[1] \in seenAtStart
    /\ wid \notin seenAtStart
    /\ wid \in seen_ids
    /\ fetchCount[items[1]] = 1

\* C3: at the end of every cycle, every id in seen_ids has been handed to
\* post_to_slack at some point of the run.
C3_SeenWereNotified ==
    pc = "sleep" => \A i \in seen_ids : notifyCount[i] >= 1

\* C4 as stated: after a cycle aborted by a fetch error, every id that
\* follows the failing position and was not in seen_ids before the cycle is
\* still absent from it; and an id left behind by an aborted cycle has been
\* fetched and handed to post_to_slack by the end of the cycle that next
\* reaches it.
C4_AsStated ==
    /\ (pc = "sleep" /\ err = "fetch") =>
          \A j \in (idx + 1)..Len(items) :
             items[j] \notin seenAtStart => items[j] \notin seen_ids
    /\ pc = "sleep" =>
          \A i \in owed : fetchCount[i] >= 1 /\ notifyCount[i] >= 1

\* C4 amended: an error in the query or in a detail fetch ends the cycle at
\* once, with no further fetch, notification or change of seen_ids; every id
\* that occurs only after the failing position and was not in seen_ids
\* before the cycle is still absent from it; and when a later cycle reaches
\* such an id it is recorded and its fetch is attempted, and it is handed to
\* post_to_slack exactly when that fetch succeeds.
C4_AbortLeavesRestForLater ==
    /\ [][((pc = "query" /\ err' = "query") \/ (pc = "fetch" /\ err' = "fetch")) =>
            /\ pc' = "sleep"
            /\ notifyCount' = notifyCount
            /\ seen_ids' = seen_ids]_vars
    /\ [][pc = "sleep" =>
            /\ pc' = "query"
            /\ fetchCount' = fetchCount
            /\ notifyCount' = notifyCount
            /\ seen_ids' = seen_ids]_vars
    /\ []((pc = "sleep" /\ err = "query") => seen_ids = seenAtStart)
    /\ []((pc = "sleep" /\ err = "fetch") =>
            \A j \in (idx + 1)..Len(items) :
               (items[j] \notin seenAtStart /\ items[j] \notin Reached)
                  => items[j] \notin seen_ids)
    /\ [](skipped \cap seen_ids = {})
    /\ [][(pc = "for" /\ idx < Len(items) /\ items[idx + 1] \in skipped) =>
            /\ pc' = "fetch"
            /\ wid' = items[idx + 1]
            /\ wid' \in seen_ids']_vars
    /\ [](pc = "sleep" =>
            \A i \in owed :
               /\ i \in seen_ids
               /\ fetchCount[i] = 1
               /\ (notifyCount[i] = 1) = (i \notin fetchFailed))

\* C4 witness: an id left behind by an aborted cycle was reached by a later
\* cycle, fetched and notified there.
C4_Witness ==
    /\ pc = "sleep"
    /\ \E i \in owed : i \in Reached /\ notifyCount[i] = 1 /\ i \notin seenAtStart

\* C5 as stated: when the delivery of an id failed in a cycle, every id
\* after it in the same result that was not in seen_ids before the cycle has
\* been fetched and handed to post_to_slack when the cycle reaches its sleep.
C5_AsStated ==
    (pc = "sleep" /\ err # "query") =>
       \A k \in 1..Len(items) : \A j \in (k + 1)..Len(items) :
          (items[k] \in deliveryFailed \ seenAtStart /\ items[j] \notin seenAtStart)
             => (fetchCount[items[j]] >= 1 /\ notifyCount[items[j]] >= 1)

\* C5 amended: a webhook failure does not end the cycle: the loop goes on
\* with the next item, a cycle in which no query or fetch raises ends with
\* every id of its result recorded and every new one notified, whatever
\* deliveries failed, and an id whose delivery failed stays in seen_ids and is
\* not notified a second time.
C5_DeliveryFailureDoesNotAbort ==
    /\ [][deliveryFailed' # deliveryFailed =>
            pc' = "for" /\ err' = err /\ idx' = idx /\ seen_ids' = seen_ids]_vars
    /\ []((pc = "sleep" /\ err = "none") =>
            \A k \in 1..Len(items) :
               /\ items[k] \in seen_ids
               /\ items[k] \notin seenAtStart => notifyCount[items[k]] = 1)
    /\ [](\A i \in deliveryFailed : i \in seen_ids /\ notifyCount[i] = 1)

\* C5 witness: in one cycle the delivery of a new id failed and a later new
\* id of the same result was still notified, and the cycle reached its sleep.
C5_Witness ==
    /\ pc = "sleep"
    /\ err = "none"
    /\ Len(items) = 2
    /\ items[1] \in deliveryFailed \ seenAtStart
    /\ items[2] \notin seenAtStart \cup {items[1]}
    /\ notifyCount[items[2]] = 1

\* C6: once in the loop the program never leaves it; every cycle issues one
\* query and is followed by one sleep, which completes before the next query;
\* and, the thread being scheduled, a run that has entered the loop is again
\* and again at its sleep and again and again at a new query.
C6_LoopNeverEnds ==
    /\ [][(pc \in LoopPcs) => (pc' \in LoopPcs)]_vars
    /\ [][(pc \in LoopPcs /\ pc' = "query") => pc = "sleep"]_vars
    /\ [][pc = "sleep" => pc' = "query"]_vars
    /\ [](pc \in InCycle => pending = 1)
    /\ [](pc \notin InCycle => pending = 0)
    /\ []<>(pc \in LoopPcs => pc = "sleep")
    /\ []<>(pc \in LoopPcs => pc = "query")

\* C6 witness: a cycle was aborted by a fetch error, slept, and the next
\* query is about to be issued.
C6_Witness == pc = "query" /\ err = "fetch" /\ fetchFailed # {} /\ pending = 0

\* C7: a run in which a secret is absent, a name is not found or a startup
\* request fails ends without any query, fetch or notification, and without
\* any request at all when a secret is absent; the loop is entered only with
\* both secrets present and board, column and area predicate resolved.
C7_PollingOnlyAfterStartup ==
    LET loopRequests == {<<"wiql", 0>>, <<"workitem", 0>>, <<"slack", 0>>}
    IN
    /\ pc = "crashed" =>
          /\ requests \cap loopRequests = {}
          /\ \A i \in Ids : fetchCount[i] = 0 /\ notifyCount[i] = 0
          /\ seen_ids = {}
          /\ crash.type # "none"
    /\ ~({"AZURE_PAT", "SLACK_WEBHOOK"} \subseteq environ) =>
          /\ requests = {}
          /\ pc \in {"config", "crashed"}
    /\ pc \in LoopPcs =>
          /\ crash = NoCrash
          /\ \E k \in 1..Len(boards) :
               boards[k].name = BOARD_NAME /\ boards[k].id = board_id
          /\ \E k \in 1..Len(cols) :
               cols[k].name = COLUMN_NAME /\ cols[k].id = column_id
          /\ area_predicate # ""
          /\ {<<"boards", 0>>, <<"columns", board_id>>, <<"teamfieldvalues", 0>>}
                \subseteq requests
    /\ requests \cap loopRequests # {} => pc \in LoopPcs

\* C7 witness: the column name is not found, and the process has ended after
\* the board and column listings only.
C7_Witness ==
    /\ pc = "crashed"
    /\ crash.type = "RuntimeError"
    /\ crash.stage = "columns"
    /\ requests = {<<"boards", 0>>, <<"columns", board_id>>}

\* The clause the claim gives for one entry with a usable path.
ExpectedClause(v) ==
    IF "includeChildren" \in DOMAIN v /\ v.includeChildren = TRUE
    THEN "[System.AreaPath] UNDER '" \o v.value \o "'"
    ELSE "[System.AreaPath] = '" \o v.value \o "'"

\* The clauses of us[1..n] joined with ' OR '.
RECURSIVE ExpectedJoin(_, _)
ExpectedJoin(us, n) ==
    IF n = 1 THEN ExpectedClause(us[1])
    ELSE ExpectedJoin(us, n - 1) \o " OR " \o ExpectedClause(us[n])

\* C8: the predicate built from a list of area entries is the project
\* clause when no entry has a non-empty path, and otherwise the parenthesized
\* ' OR ' join, in input order, of one clause per entry with a non-empty path,
\* UNDER when includeChildren is true and = when it is false or missing; it
\* is never empty and never '()'.
C8_AreaPredicate ==
    pc = "query" =>
       LET usable == SelectSeq(values,
                        LAMBDA v : "value" \in DOMAIN v /\ v.value # "")
       IN  /\ area_predicate # ""
           /\ area_predicate # "()"
           /\ IF Len(usable) = 0
              THEN area_predicate = "[System.TeamProject] = 'OmniStack'"
              ELSE area_predicate =
                      "(" \o ExpectedJoin(usable, Len(usable)) \o ")"

\* C8 witness: an entry without a path between an inclusive entry and an
\* entry without includeChildren gives two clauses in input order.
C8_Witness ==
    /\ pc = "query"
    /\ values = << [value |-> "OmniStack\\WASP", includeChildren |-> TRUE],
                   [includeChildren |-> TRUE],
                   [value |-> "OmniStack\\QA"] >>
    /\ area_predicate = "([System.AreaPath] UNDER 'OmniStack\\WASP' OR "
                          \o "[System.AreaPath] = 'OmniStack\\QA')"

\* The positions of the entries of list whose name is exactly wanted.
Exact(list, wanted) == {k \in 1..Len(list) : list[k].name = wanted}

Least(S) == CHOOSE k \in S : \A m \in S : k <= m

BoardLookupDone ==
    \/ pc \in {"columns", "area", "query"}
    \/ pc = "crashed" /\ crash.stage \in {"columns", "area"}

ColumnLookupDone ==
    \/ pc \in {"area", "query"}
    \/ pc = "crashed" /\ crash.stage = "area"

\* C9: board and column resolution return the id of the first fetched entry
\* whose name equals the requested name exactly, and never the id of an entry
\* with another name; without such an entry they fail with an error listing
\* the names of all fetched entries; and the column list is requested for the
\* board id the board lookup returned.
C9_ExactNameResolution ==
    /\ BoardLookupDone =>
          /\ Exact(boards, BOARD_NAME) # {}
          /\ board_id = boards[Least(Exact(boards, BOARD_NAME))].id
    /\ (pc = "crashed" /\ crash.stage = "boards" /\ crash.type = "RuntimeError") =>
          /\ Exact(boards, BOARD_NAME) = {}
          /\ crash.available = [k \in 1..Len(boards) |-> boards[k].name]
    /\ ColumnLookupDone =>
          /\ Exact(cols, COLUMN_NAME) # {}
          /\ column_id = cols[Least(Exact(cols, COLUMN_NAME))].id
    /\ (pc = "crashed" /\ crash.stage = "columns" /\ crash.type = "RuntimeError") =>
          /\ Exact(cols, COLUMN_NAME) = {}
          /\ crash.available = [k \in 1..Len(cols) |-> cols[k].name]
    /\ \A r \in requests : r[1] = "columns" => r[2] = board_id /\ board_id \in BoardIds

\* C9 witness: the board list holds a name differing only in case before the
\* exact one, the exact one's id was returned, and the column was resolved on
\* that board.
C9_Witness ==
    /\ pc = "area"
    /\ Len(boards) = 2
    /\ boards[1].name = "stories"
    /\ boards[2].name = "Stories"
    /\ boards[1].id # boards[2].id
    /\ board_id = boards[2].id
    /\ <<"columns", boards[2].id>> \in requests
    /\ Len(cols) = 2
    /\ cols[1].name = "Ready for QA "
    /\ column_id = cols[2].id

\* C10: seen_ids starts empty and only grows, and the only step that changes
\* it is the for loop adding the id it has just reached and that was not in
\* it.
C10_SeenOnlyGrows ==
    /\ seen_ids = {}
    /\ [][/\ seen_ids \subseteq seen_ids'
          /\ seen_ids' # seen_ids =>
                /\ pc = "for"
                /\ idx < Len(items)
                /\ items[idx + 1] \notin seen_ids
                /\ seen_ids' = seen_ids \cup {items[idx + 1]}]_vars

\* C10 witness: every id has been recorded and a cycle aborted by a fetch
\* error has ended with all of them still recorded.
C10_Witness ==
    /\ pc = "query"
    /\ err = "fetch"
    /\ seen_ids = Ids
    /\ Cardinality(seen_ids) >= 2

====
